---- MODULE Spec2Model ----
(***************************************************************************)
(* Tariff duty calculation engine: rate parser, schedule lookup, duty      *)
(* engine, textual report and batch runner.                                *)
(*                                                                         *)
(* Python values are tagged records (PyVal).  Floats are modelled as exact *)
(* rationals n/d in lowest terms (binary rounding is not modelled); text   *)
(* is a sequence of one-character strings.  A function of the code that    *)
(* runs several statements is a chain of operators, each the rest of the   *)
(* function after one statement, with the values computed so far as its    *)
(* parameters.                                                             *)
(***************************************************************************)
EXTENDS Integers, Sequences, FiniteSets, TLC

VARIABLES
    store,      \* the schedule store behind Config.SQLITE_DB_PATH
    product,    \* the ProductInfo handed to the duty engine
    calc,       \* outcome of DutyCalculator.calculate_duty
    report,     \* outcome of format_calculation_result / quick_duty_calculation
    pc,         \* position of the caller
    rows,       \* batch calculator: the uploaded rows (df.iterrows())
    idx,        \* batch calculator: number of rows already processed
    results,    \* batch calculator: the results list
    rate_in,    \* rate parser: the argument of parse_duty_rate
    rate_out,   \* rate parser: the outcome of parse_duty_rate
    opened,     \* schedule store: number of sqlite3.connect calls made
    closed,     \* schedule store: number of conn.close() calls made
    cancelled,  \* batch calculator: the user has asked to stop the batch
    tool_in,    \* agent: the input string of the Duty_Calculator tool
    dl          \* ingestion: the download of the schedule's chapters

vars == <<store, product, calc, report, pc, rows, idx, results, rate_in, rate_out,
         opened, closed, cancelled, tool_in, dl>>

(***************************************************************************)
(* Bounds of the model.                                                    *)
(***************************************************************************)
MaxParts == 3       \* rate texts: number of fragments concatenated
MaxTables == 2      \* schedule store: number of tables
MaxRows == 3        \* batch calculator: number of uploaded rows
MaxRetries == 3     \* ingestion: max_retries of a direct call of the download
MaxStopped == 2     \* batch calculator: number of rows of a batch asked to stop

(***************************************************************************)
(* Python values.                                                          *)
(***************************************************************************)
Abs(n) == IF n < 0 THEN -n ELSE n

RECURSIVE GCD(_, _)
GCD(a, b) == IF b = 0 THEN a ELSE GCD(b, a % b)

Reduced(n, d, g) == [t |-> "num", n |-> n \div g, d |-> d \div g, s |-> <<>>]

\* a float, as the exact rational n/d (d > 0) in lowest terms
Num(n, d) == Reduced(n, d, GCD(Abs(n), d))

\* the float n.0
Int2Num(n) == Num(n, 1)
\* the int n
PyInt(n) == [t |-> "int", n |-> n, d |-> 1, s |-> <<>>]
Str(s) == [t |-> "str", n |-> 0, d |-> 1, s |-> s]
None == [t |-> "none", n |-> 0, d |-> 1, s |-> <<>>]
NaN == [t |-> "nan", n |-> 0, d |-> 1, s |-> <<>>]
\* a raised exception, named by its class
Exc(name) == [t |-> "exc", n |-> 0, d |-> 1, s |-> <<name>>]
\* str(e) of an exception, as one token
ExcText(e) == e.s[1]
\* a dictionary key that is absent
Absent == [t |-> "absent", n |-> 0, d |-> 1, s |-> <<>>]

IsNum(v) == v.t \in {"num", "int"}
IsInt(v) == v.t = "int"
\* a == b for two numbers (1 == 1.0): both are in lowest terms
NumEq(a, b) == IsNum(a) /\ IsNum(b) /\ a.n = b.n /\ a.d = b.d
\* the result of an arithmetic operation: an int only from two ints
Arith(a, b, n, d) == IF IsInt(a) /\ IsInt(b) /\ d = 1 THEN PyInt(n) ELSE Num(n, d)
IsStr(v) == v.t = "str"
IsExc(v) == v.t = "exc"

\* a + b
PyAdd(a, b) ==
    IF IsExc(a) THEN a
    ELSE IF IsExc(b) THEN b
    ELSE IF IsNum(a) /\ IsNum(b) THEN Arith(a, b, a.n * b.d + b.n * a.d, a.d * b.d)
    ELSE IF IsStr(a) /\ IsStr(b) THEN Str(a.s \o b.s)
    ELSE Exc("TypeError")

RECURSIVE Repeat(_, _)
Repeat(s, k) == IF k <= 0 THEN <<>> ELSE s \o Repeat(s, k - 1)

\* a * b
PyMul(a, b) ==
    IF IsExc(a) THEN a
    ELSE IF IsExc(b) THEN b
    ELSE IF IsNum(a) /\ IsNum(b) THEN Arith(a, b, a.n * b.n, a.d * b.d)
    ELSE IF IsInt(a) /\ IsStr(b) THEN Str(Repeat(b.s, a.n))
    ELSE IF IsStr(a) /\ IsInt(b) THEN Str(Repeat(a.s, b.n))
    ELSE Exc("TypeError")

\* a / b (true division: a float)
PyDiv(a, b) ==
    IF IsExc(a) THEN a
    ELSE IF IsExc(b) THEN b
    ELSE IF IsNum(a) /\ IsNum(b)
         THEN IF b.n = 0 THEN Exc("ZeroDivisionError")
              ELSE IF b.n > 0 THEN Num(a.n * b.d, a.d * b.n)
              ELSE Num(-(a.n * b.d), a.d * (-b.n))
    ELSE Exc("TypeError")

\* not v
Falsy(v) ==
    \/ v.t = "none"
    \/ (IsStr(v) /\ v.s = <<>>)
    \/ (IsNum(v) /\ v.n = 0)

\* pd.isna(v), for a scalar v
IsNa(v) == v.t \in {"none", "nan"}

(***************************************************************************)
(* Text.                                                                   *)
(***************************************************************************)
Digits == <<"0", "1", "2", "3", "4", "5", "6", "7", "8", "9">>
\* the value of each digit
DigitValues == [d \in {Digits[i] : i \in 1..10} |-> (CHOOSE i \in 1..10 : Digits[i] = d) - 1]
IsDigit(c) == c \in DOMAIN DigitValues
DigitVal(c) == DigitValues[c]

UpperChars == <<"A", "B", "C", "D", "E", "F", "G", "H", "I", "J", "K", "L", "M",
                "N", "O", "P", "Q", "R", "S", "T", "U", "V", "W", "X", "Y", "Z">>
LowerChars == <<"a", "b", "c", "d", "e", "f", "g", "h", "i", "j", "k", "l", "m",
                "n", "o", "p", "q", "r", "s", "t", "u", "v", "w", "x", "y", "z">>
\* the lower-case letter of each upper-case letter
ToLower ==
    [u \in {UpperChars[i] : i \in 1..26} |->
        LowerChars[CHOOSE i \in 1..26 : UpperChars[i] = u]]
LowerChar(c) == IF c \in DOMAIN ToLower THEN ToLower[c] ELSE c

\* str.lower()
Lower(s) == [i \in 1..Len(s) |-> LowerChar(s[i])]

Whitespace == {" ", "\n", "\t"}

\* str.strip()
Strip(s) ==
    IF \A i \in 1..Len(s) : s[i] \in Whitespace THEN <<>>
    ELSE SubSeq(s,
                CHOOSE i \in 1..Len(s) :
                    s[i] \notin Whitespace /\ \A j \in 1..(i - 1) : s[j] \in Whitespace,
                CHOOSE i \in 1..Len(s) :
                    s[i] \notin Whitespace /\ \A j \in (i + 1)..Len(s) : s[j] \in Whitespace)

\* whether text w occurs in s at position i
OccursAt(s, i, w) ==
    /\ i >= 1
    /\ i + Len(w) - 1 <= Len(s)
    /\ \A k \in 1..Len(w) : s[i + k - 1] = w[k]

\* w in s
Contains(s, w) == \E i \in 1..(Len(s) + 1) : OccursAt(s, i, w)

RECURSIVE DigitsValue(_)
DigitsValue(s) ==
    IF s = <<>> THEN 0
    ELSE 10 * DigitsValue(SubSeq(s, 1, Len(s) - 1)) + DigitVal(s[Len(s)])

RECURSIVE Pow10(_)
Pow10(k) == IF k = 0 THEN 1 ELSE 10 * Pow10(k - 1)

\* the value of the digits whole and frac around a decimal point
Decimal(whole, frac) ==
    Num(DigitsValue(whole) * Pow10(Len(frac)) + DigitsValue(frac), Pow10(Len(frac)))

\* the position of the first "." of w, or Len(w) + 1
DotAt(w) ==
    IF \E i \in 1..Len(w) : w[i] = "."
    THEN CHOOSE i \in 1..Len(w) : w[i] = "." /\ \A j \in 1..(i - 1) : w[j] # "."
    ELSE Len(w) + 1

\* float(w) for an unsigned text w: digits with at most one decimal point (the
\* texts of the model hold no exponent, underscore, inf or nan)
UnsignedFloat(w) ==
    IF /\ \A i \in 1..Len(w) : IsDigit(w[i]) \/ w[i] = "."
       /\ Cardinality({i \in 1..Len(w) : w[i] = "."}) <= 1
       /\ \E i \in 1..Len(w) : IsDigit(w[i])
    THEN Decimal(SubSeq(w, 1, DotAt(w) - 1), SubSeq(w, DotAt(w) + 1, Len(w)))
    ELSE Exc("ValueError")

Negated(v) == IF IsExc(v) THEN v ELSE Num(-v.n, v.d)

\* float(u) for a text u without surrounding whitespace
SignedFloat(u) ==
    IF u # <<>> /\ u[1] = "-" THEN Negated(UnsignedFloat(Tail(u)))
    ELSE IF u # <<>> /\ u[1] = "+" THEN UnsignedFloat(Tail(u))
    ELSE UnsignedFloat(u)

\* float(s) for a text s
PyFloat(s) == SignedFloat(Strip(s))

\* whether s[a..b] is matched by the decimal group of the patterns: one or more
\* digits, an optional dot, any digits
IsDecimal(s, a, b) ==
    /\ a <= b
    /\ IsDigit(s[a])
    /\ \A i \in a..b : IsDigit(s[i]) \/ s[i] = "."
    /\ Cardinality({i \in a..b : s[i] = "."}) <= 1

(***************************************************************************)
(* re.search of the pattern  prefix GROUP suffix  in s, where GROUP is the *)
(* decimal group and suffix is one of the texts of suffixes.  The match is *)
(* the leftmost one; in it the greedy quantifiers give the group the       *)
(* longest extent after which a suffix follows.  The result is <<>> for no *)
(* match and <<group>> for a match.                                        *)
(***************************************************************************)
GroupEnds(s, a, suffixes) ==
    {b \in a..Len(s) : IsDecimal(s, a, b) /\ \E w \in suffixes : OccursAt(s, b + 1, w)}

MatchStarts(s, prefix, suffixes) ==
    {i \in 1..Len(s) :
        OccursAt(s, i, prefix) /\ GroupEnds(s, i + Len(prefix), suffixes) # {}}

Least(S) == CHOOSE x \in S : \A y \in S : x <= y
Greatest(S) == CHOOSE x \in S : \A y \in S : y <= x

LongestGroup(s, a, ends) == <<SubSeq(s, a, Greatest(ends))>>

LeftmostMatch(s, prefix, suffixes, starts) ==
    IF starts = {} THEN <<>>
    ELSE LongestGroup(s, Least(starts) + Len(prefix),
                      GroupEnds(s, Least(starts) + Len(prefix), suffixes))

ReSearch(s, prefix, suffixes) ==
    LeftmostMatch(s, prefix, suffixes, MatchStarts(s, prefix, suffixes))

(***************************************************************************)
(* DutyCalculator.parse_duty_rate.  The outcome is the pair [type, value]; *)
(* the type "raised" stands for an exception, held in value.               *)
(***************************************************************************)
Rate(type, value) == [type |-> type, value |-> value]
Free == Rate("free", Int2Num(0))

\* a faulty variant of Returned: the kind of a matched pattern is lost
ReturnedAsFree(type, value) ==
    IF IsExc(value) THEN Rate("raised", value) ELSE Rate("free", value)

\* return type, float(group)
Returned(type, value) == IF IsExc(value) THEN Rate("raised", value) ELSE Rate(type, value)

PercentMatch(s) == ReSearch(s, <<>>, {<<"%">>})
CentsKgMatch(s) == ReSearch(s, <<>>, {<<"¢", "/", "k", "g">>, <<"/", "k", "g">>})
DollarUnitMatch(s) == ReSearch(s, <<"$">>, {<<>>})

\* a faulty variant of Unparsed: a text no pattern matches is an error
UnparsedRaises == Rate("raised", Exc("ValueError"))

\* the default when no pattern matches
Unparsed == Free

\* a faulty variant of Classified: the dollar pattern is tried first
ClassifiedDollarFirst(percent_match, cents_kg_match, dollar_unit_match) ==
    IF dollar_unit_match # <<>>
    THEN Returned("dollars_per_unit", PyFloat(dollar_unit_match[1]))
    ELSE IF percent_match # <<>> THEN Returned("percentage", PyFloat(percent_match[1]))
    ELSE IF cents_kg_match # <<>> THEN Returned("cents_per_kg", PyFloat(cents_kg_match[1]))
    ELSE Unparsed

\* the three pattern checks, in the order of the code
Classified(percent_match, cents_kg_match, dollar_unit_match) ==
    IF percent_match # <<>> THEN Returned("percentage", PyFloat(percent_match[1]))
    ELSE IF cents_kg_match # <<>> THEN Returned("cents_per_kg", PyFloat(cents_kg_match[1]))
    ELSE IF dollar_unit_match # <<>>
         THEN Returned("dollars_per_unit", PyFloat(dollar_unit_match[1]))
    ELSE Unparsed

\* a faulty variant of ParsedText: the patterns are tried before the free rule
ParsedTextPatternsFirst(s) ==
    IF PercentMatch(s) # <<>> \/ CentsKgMatch(s) # <<>> \/ DollarUnitMatch(s) # <<>>
    THEN Classified(PercentMatch(s), CentsKgMatch(s), DollarUnitMatch(s))
    ELSE Free

\* the checks on the trimmed, lower-cased text
ParsedText(s) ==
    IF Contains(s, <<"f", "r", "e", "e">>) \/ s = <<"0">> THEN Free
    ELSE Classified(PercentMatch(s), CentsKgMatch(s), DollarUnitMatch(s))

\* str(duty_rate).strip().lower(), for a text duty_rate (the rate values of the
\* model are texts, None and NaN)
Normalized(v) == Lower(Strip(v.s))

\* a faulty variant of parse_duty_rate: no guard for a rate that is no text
ParseWithoutGuard(duty_rate) ==
    IF IsStr(duty_rate) THEN ParsedText(Normalized(duty_rate))
    ELSE Rate("raised", Exc("AttributeError"))

parse_duty_rate(duty_rate) ==
    IF Falsy(duty_rate) \/ IsNa(duty_rate) THEN Free
    ELSE ParsedText(Normalized(duty_rate))

(***************************************************************************)
(* The schedule store.  A store has a status ("ok", "missing": no database *)
(* file yet, sqlite3.connect creates an empty one; "corrupt": the file is  *)
(* not a database, the first statement raises) and an ordered list of      *)
(* tables, in the order of sqlite_master.  A table has a set of columns    *)
(* and an ordered list of rows; a row gives a value to each of the four    *)
(* columns the engine reads (a value of a column the table lacks is        *)
(* ignored).                                                               *)
(***************************************************************************)
Table(cols, trows) == [cols |-> cols, rows |-> trows]
Row(code, number, rate, desc) ==
    [hts_code |-> code, hts_number |-> number, duty_rate |-> rate,
     product_description |-> desc]

RECURSIVE LikeMatch(_, _)
\* SQLite's  text LIKE pattern : % matches any run of characters, _ any one
\* character, letters match without regard to case
LikeMatch(pattern, text) ==
    IF pattern = <<>> THEN text = <<>>
    ELSE IF Head(pattern) = "%"
         THEN LikeMatch(Tail(pattern), text)
              \/ (text # <<>> /\ LikeMatch(pattern, Tail(text)))
    ELSE IF text = <<>> THEN FALSE
    ELSE /\ (Head(pattern) = "_" \/ LowerChar(Head(pattern)) = LowerChar(Head(text)))
         /\ LikeMatch(Tail(pattern), Tail(text))

\* value LIKE ? with the parameter f"%{hts_code}%"; NULL LIKE ? is not true
ColumnLike(value, hts_code) ==
    IsStr(value) /\ LikeMatch(<<"%">> \o hts_code \o <<"%">>, value.s)

\* WHERE hts_code LIKE ? OR hts_number LIKE ?
RowMatches(r, hts_code) ==
    ColumnLike(r.hts_code, hts_code) \/ ColumnLike(r.hts_number, hts_code)

\* the statement names both columns: it raises on a table that lacks one
QueryFails(tb) == ~({"hts_code", "hts_number"} \subseteq tb.cols)

\* the rows of the table that the WHERE clause selects
Matching(tb, hts_code) == {k \in 1..Len(tb.rows) : RowMatches(tb.rows[k], hts_code)}

\* df.iloc[0].to_dict() of the selected row (LIMIT 1: the first one)
FirstOf(tb, matching) == [cols |-> tb.cols, row |-> tb.rows[Least(matching)]]

\* the outcome of the try block: it returns a value (<<>> is None, <<d>> is
\* the dictionary d) or it raises an exception
TryReturn(value) == [raised |-> Absent, value |-> value]
TryRaise(e) == [raised |-> e, value |-> <<>>]

RECURSIVE ScanTables(_, _, _)
\* the loop over the tables
ScanTables(tables, i, hts_code) ==
    IF i > Len(tables) THEN TryReturn(<<>>)
    ELSE IF QueryFails(tables[i]) THEN TryRaise(Exc("DatabaseError"))
    ELSE IF Matching(tables[i], hts_code) # {}
         THEN TryReturn(<<FirstOf(tables[i], Matching(tables[i], hts_code))>>)
    ELSE ScanTables(tables, i + 1, hts_code)

\* DutyCalculator._get_table_names: a database just created has no tables
TableNames(st) == IF st.status = "ok" THEN st.tables ELSE <<>>

\* the try block: the first statement on a file that is no database raises
TryBlock(st, hts_code) ==
    IF st.status = "corrupt" THEN TryRaise(Exc("DatabaseError"))
    ELSE ScanTables(TableNames(st), 1, hts_code)

\* a faulty variant of ExceptClause: the exception leaves get_hts_data
NoExceptClause(outcome) == outcome

\* except Exception: return None
ExceptClause(outcome) == IF outcome.raised # Absent THEN TryReturn(<<>>) ELSE outcome

\* DutyCalculator.get_hts_data, as the outcome of the call
get_hts_data(st, hts_code) == ExceptClause(TryBlock(st, hts_code))

\* conn.close() is reached on the two returns of the try block, and the except
\* clause has no call of it
Closes(outcome) == IF outcome.raised = Absent THEN 1 ELSE 0

\* the number of conn.close() calls one call of get_hts_data makes
CloseCalls(st, hts_code) == Closes(TryBlock(st, hts_code))

\* the value get_hts_data returns
HtsData(st, hts_code) == get_hts_data(st, hts_code).value

\* hts_data.get(key, default)
DictGet(d, key, default) == IF key \in d.cols THEN d.row[key] ELSE default

(***************************************************************************)
(* DutyCalculator._calculate_duty_amount                                   *)
(***************************************************************************)
Hundred == Int2Num(100)
ZeroFloat == Int2Num(0)

\* a faulty variant of calculate_duty_amount: the dollar rate is charged per
\* kilogram, not per unit
DutyAmountPerKg(duty_type, duty_value, cif_value, quantity, unit_weight) ==
    IF duty_type = "free" THEN ZeroFloat
    ELSE IF duty_type = "percentage"
         THEN PyMul(PyDiv(duty_value, Hundred), cif_value)
    ELSE IF duty_type = "cents_per_kg"
         THEN PyMul(PyDiv(duty_value, Hundred), PyMul(quantity, unit_weight))
    ELSE IF duty_type = "dollars_per_unit"
         THEN PyMul(duty_value, PyMul(quantity, unit_weight))
    ELSE ZeroFloat

calculate_duty_amount(duty_type, duty_value, cif_value, quantity, unit_weight) ==
    IF duty_type = "free" THEN ZeroFloat
    ELSE IF duty_type = "percentage"
         THEN PyMul(PyDiv(duty_value, Hundred), cif_value)
    ELSE IF duty_type = "cents_per_kg"
         THEN PyMul(PyDiv(duty_value, Hundred), PyMul(quantity, unit_weight))
    ELSE IF duty_type = "dollars_per_unit"
         THEN PyMul(duty_value, quantity)
    ELSE ZeroFloat

(***************************************************************************)
(* DutyCalculator.calculate_duty.  The outcome is a DutyCalculation, with  *)
(* raised = Absent, or an exception in raised.  The breakdown is a         *)
(* function from its keys to their values.                                 *)
(***************************************************************************)
BreakdownKeys ==
    {"product_cost", "freight", "insurance", "cif_value", "duty_amount",
     "total_landed_cost"}

EmptyBreakdown == [k \in {} |-> ZeroFloat]

DutyCalculation(code, desc, cif, rate, amount, total, type, breakdown) ==
    [raised |-> Absent, hts_code |-> code, product_description |-> desc,
     cif_value |-> cif, duty_rate |-> rate, duty_amount |-> amount,
     total_landed_cost |-> total, duty_type |-> type, breakdown |-> breakdown]

Raised(e) ==
    [raised |-> e, hts_code |-> <<>>, product_description |-> None,
     cif_value |-> None, duty_rate |-> None, duty_amount |-> None,
     total_landed_cost |-> None, duty_type |-> "", breakdown |-> EmptyBreakdown]

\* a faulty variant of CifValue: the insurance counts for one origin only
CifValueByOrigin(p) ==
    IF p.country_of_origin = <<"C", "N">>
    THEN PyAdd(PyAdd(p.cost, p.freight), p.insurance)
    ELSE PyAdd(p.cost, p.freight)

\* a faulty variant of CifValue: the insurance is left out
CifValueNoInsurance(p) == PyAdd(p.cost, p.freight)

\* cif_value = product_info.cost + product_info.freight + product_info.insurance
CifValue(p) == PyAdd(PyAdd(p.cost, p.freight), p.insurance)

\* the breakdown of the result for a code that the lookup does not find
NotFoundBreakdown(p) == EmptyBreakdown

\* a faulty variant of NotFoundResult: the CIF value is computed from the input
NotFoundWithCif(p) ==
    DutyCalculation(p.hts_code, Str(<<"HTS code not found">>), CifValue(p),
                    Str(<<"Unknown">>), PyInt(0), CifValue(p), "unknown",
                    NotFoundBreakdown(p))

\* the result for a code that the lookup does not find
NotFoundResult(p) ==
    DutyCalculation(p.hts_code, Str(<<"HTS code not found">>), PyInt(0),
                    Str(<<"Unknown">>), PyInt(0), PyInt(0), "unknown",
                    NotFoundBreakdown(p))

\* a faulty variant of TotalLandedCost: the duty is left out
TotalWithoutDuty(cif_value, duty_amount) == cif_value

\* a faulty variant of TotalLandedCost: the duty is taken off the CIF value
TotalLessDuty(cif_value, duty_amount) ==
    IF IsNum(cif_value) /\ IsNum(duty_amount)
    THEN PyAdd(cif_value, Num(-duty_amount.n, duty_amount.d))
    ELSE PyAdd(cif_value, duty_amount)

\* total_landed_cost = cif_value + duty_amount
TotalLandedCost(cif_value, duty_amount) == PyAdd(cif_value, duty_amount)

Breakdown(p, cif_value, duty_amount, total_landed_cost) ==
    [k \in BreakdownKeys |->
        CASE k = "product_cost" -> p.cost
          [] k = "freight" -> p.freight
          [] k = "insurance" -> p.insurance
          [] k = "cif_value" -> cif_value
          [] k = "duty_amount" -> duty_amount
          [] k = "total_landed_cost" -> total_landed_cost]

\* the return statement of the found case
WithTotal(p, hts_data, cif_value, duty_rate_str, rate, duty_amount, total_landed_cost) ==
    IF IsExc(total_landed_cost) THEN Raised(total_landed_cost)
    ELSE DutyCalculation(p.hts_code,
                         DictGet(hts_data, "product_description", Str(<<"Unknown">>)),
                         cif_value, duty_rate_str, duty_amount, total_landed_cost,
                         rate.type,
                         Breakdown(p, cif_value, duty_amount, total_landed_cost))

WithAmount(p, hts_data, cif_value, duty_rate_str, rate, duty_amount) ==
    IF IsExc(duty_amount) THEN Raised(duty_amount)
    ELSE WithTotal(p, hts_data, cif_value, duty_rate_str, rate, duty_amount,
                   TotalLandedCost(cif_value, duty_amount))

WithRate(p, hts_data, cif_value, duty_rate_str, rate) ==
    IF rate.type = "raised" THEN Raised(rate.value)
    ELSE WithAmount(p, hts_data, cif_value, duty_rate_str, rate,
                    calculate_duty_amount(rate.type, rate.value, cif_value,
                                          p.quantity, p.unit_weight))

WithRateText(p, hts_data, cif_value, duty_rate_str) ==
    WithRate(p, hts_data, cif_value, duty_rate_str, parse_duty_rate(duty_rate_str))

WithCif(p, hts_data, cif_value) ==
    IF IsExc(cif_value) THEN Raised(cif_value)
    ELSE WithRateText(p, hts_data, cif_value,
                      DictGet(hts_data, "duty_rate", Str(<<"F", "r", "e", "e">>)))

\* the found case
FoundResult(p, hts_data) == WithCif(p, hts_data, CifValue(p))

\* if not hts_data: ... else: ...
WithData(p, hts_data) ==
    IF hts_data = <<>> THEN NotFoundResult(p) ELSE FoundResult(p, hts_data[1])

\* hts_data = self.get_hts_data(product_info.hts_code)
WithLookup(p, outcome) ==
    IF outcome.raised # Absent THEN Raised(outcome.raised) ELSE WithData(p, outcome.value)

\* calculate_duty, given the outcome of the try block of its lookup
CalculatedFrom(p, tried) == WithLookup(p, ExceptClause(tried))

calculate_duty(st, p) == CalculatedFrom(p, TryBlock(st, p.hts_code))

(***************************************************************************)
(* The textual report.  A text is a sequence of characters in which each   *)
(* fixed word of the layout ("Duty Amount", "Product", a description, an   *)
(* exception's message) is one token.                                      *)
(***************************************************************************)
RECURSIVE NatChars(_)
\* str(k) for a natural number k
NatChars(k) ==
    IF k < 10 THEN <<Digits[k + 1]>>
    ELSE NatChars(k \div 10) \o <<Digits[(k % 10) + 1]>>

\* q + r/d rounded to the nearest integer, ties to even
HalfEven(q, r, d) == IF 2 * r > d \/ (2 * r = d /\ q % 2 = 1) THEN q + 1 ELSE q

\* the number of hundredths nearest to |n/d|
RoundCents(n, d) == HalfEven((100 * Abs(n)) \div d, (100 * Abs(n)) % d, d)

\* the text of c hundredths, with sign
CentsText(negative, c) ==
    (IF negative THEN <<"-">> ELSE <<>>)
    \o NatChars(c \div 100) \o <<".">>
    \o <<Digits[((c \div 10) % 10) + 1], Digits[(c % 10) + 1]>>

\* f"{v:.2f}" for a number v
Fixed2(v) == CentsText(v.n < 0, RoundCents(v.n, v.d))

\* the exception f"{v:.2f}" raises for a value that is no number
Fixed2Error(v) == IF IsStr(v) THEN Exc("ValueError") ELSE Exc("TypeError")

\* f"{v}" for a text, None or NaN
PyStr(v) ==
    IF IsStr(v) THEN v.s
    ELSE IF v.t = "none" THEN <<"N", "o", "n", "e">>
    ELSE IF v.t = "nan" THEN <<"n", "a", "n">>
    ELSE <<>>

\* the values the report formats with :.2f, in the order the f-string reads them
MoneyFields(c) ==
    <<c.breakdown["product_cost"], c.breakdown["freight"], c.breakdown["insurance"],
      c.breakdown["cif_value"], c.duty_amount, c.total_landed_cost>>

\* ${v:.2f}
Money(v) == <<"$">> \o Fixed2(v)

ReportText(c) ==
    <<"\n", "HTS Code", ":", " ">> \o c.hts_code
    \o <<"\n", "Product", ":", " ">> \o PyStr(c.product_description)
    \o <<"\n", "\n", "Cost Breakdown", ":">>
    \o <<"\n", "-", " ", "Product Cost", ":", " ">> \o Money(c.breakdown["product_cost"])
    \o <<"\n", "-", " ", "Freight", ":", " ">> \o Money(c.breakdown["freight"])
    \o <<"\n", "-", " ", "Insurance", ":", " ">> \o Money(c.breakdown["insurance"])
    \o <<"\n", "-", " ", "CIF Value", ":", " ">> \o Money(c.breakdown["cif_value"])
    \o <<"\n", "\n", "Duty Calculation", ":">>
    \o <<"\n", "-", " ", "Duty Rate", ":", " ">> \o PyStr(c.duty_rate)
    \o <<"\n", "-", " ", "Duty Type", ":", " ", c.duty_type>>
    \o <<"\n", "-", " ", "Duty Amount", ":", " ">> \o Money(c.duty_amount)
    \o <<"\n", "\n", "Total Landed Cost", ":", " ">> \o Money(c.total_landed_cost)
    \o <<"\n", " ", " ", " ", " ", " ", " ", " ", " ">>

\* the first of the values that is no number
FirstNonNumber(values) ==
    values[CHOOSE i \in 1..Len(values) :
               ~IsNum(values[i]) /\ \A j \in 1..(i - 1) : IsNum(values[j])]

\* DutyCalculator.format_calculation_result: the report, or the exception raised
format_calculation_result(c) ==
    IF ~({"product_cost", "freight", "insurance", "cif_value"} \subseteq DOMAIN c.breakdown)
    THEN Exc("KeyError")
    ELSE IF \E i \in 1..6 : ~IsNum(MoneyFields(c)[i])
         THEN Fixed2Error(FirstNonNumber(MoneyFields(c)))
    ELSE Str(Strip(ReportText(c)))

\* f"Error calculating duty: {str(e)}"
ErrorText(e) == Str(<<"Error calculating duty", ":", " ", ExcText(e)>>)

ProductInfo(hts_code, cost, freight, insurance, quantity, unit_weight) ==
    [hts_code |-> hts_code, cost |-> cost, freight |-> freight,
     insurance |-> insurance, quantity |-> quantity, unit_weight |-> unit_weight,
     country_of_origin |-> <<"C", "N">>]

\* return format_calculation_result(calculation), inside the try
Formatted(text) == IF IsExc(text) THEN ErrorText(text) ELSE text

Calculated(calculation) ==
    IF calculation.raised # Absent THEN ErrorText(calculation.raised)
    ELSE Formatted(format_calculation_result(calculation))

\* quick_duty_calculation, given the outcome of the try block of its lookup
QuickFrom(tried, hts_code, cost, freight, insurance, quantity, unit_weight) ==
    Calculated(CalculatedFrom(ProductInfo(hts_code, cost, freight, insurance,
                                          quantity, unit_weight), tried))

\* HTSAgent.quick_duty_calculation: always a text
quick_duty_calculation(st, hts_code, cost, freight, insurance, quantity, unit_weight) ==
    QuickFrom(TryBlock(st, hts_code), hts_code, cost, freight, insurance, quantity,
              unit_weight)

(***************************************************************************)
(* The batch calculator: the body of the loop over the uploaded rows.      *)
(***************************************************************************)
RECURSIVE Split(_, _)
\* s.split(sep), for a one-character separator
Split(s, sep) ==
    IF \E i \in 1..Len(s) : s[i] = sep
    THEN <<SubSeq(s, 1, (CHOOSE k \in 1..Len(s) :
                             s[k] = sep /\ \A j \in 1..(k - 1) : s[j] # sep) - 1)>>
         \o Split(SubSeq(s, (CHOOSE k \in 1..Len(s) :
                                 s[k] = sep /\ \A j \in 1..(k - 1) : s[j] # sep) + 1,
                         Len(s)), sep)
    ELSE <<s>>

\* float(line.split(':')[1].strip())
LabelValue(line) == PyFloat(Strip(Split(line, ":")[2]))

Parsed(raised, duty_amount, total_cost) ==
    [raised |-> raised, duty_amount |-> duty_amount, total_cost |-> total_cost]

RECURSIVE ParseLines(_, _, _, _)
RECURSIVE DutyAmountLine(_, _, _, _)
RECURSIVE TotalCostLine(_, _, _, _)
\* the loop over the lines of the report
ParseLines(lines, i, duty_amount, total_cost) ==
    IF i > Len(lines) THEN Parsed(Absent, duty_amount, total_cost)
    ELSE IF Contains(lines[i], <<"Duty Amount", ":">>)
         THEN DutyAmountLine(lines, i, LabelValue(lines[i]), total_cost)
    ELSE IF Contains(lines[i], <<"Total Landed Cost", ":">>)
         THEN TotalCostLine(lines, i, duty_amount, LabelValue(lines[i]))
    ELSE ParseLines(lines, i + 1, duty_amount, total_cost)

\* duty_amount = float(...)
DutyAmountLine(lines, i, value, total_cost) ==
    IF IsExc(value) THEN Parsed(value, PyInt(0), total_cost)
    ELSE ParseLines(lines, i + 1, value, total_cost)

\* total_cost = float(...)
TotalCostLine(lines, i, duty_amount, value) ==
    IF IsExc(value) THEN Parsed(value, duty_amount, PyInt(0))
    ELSE ParseLines(lines, i + 1, duty_amount, value)

ResultRow(hts_code, cost, cif, duty_amount, total_cost, error) ==
    [hts_code |-> hts_code, product_cost |-> cost, cif_value |-> cif,
     duty_amount |-> duty_amount, total_landed_cost |-> total_cost, error |-> error]

\* the row the except clause appends
ErrorRow(row, e) ==
    ResultRow(row.hts_code, row.cost, PyInt(0), PyInt(0), PyInt(0), Str(<<ExcText(e)>>))

\* row['cost'] + row['freight'] + row['insurance']
RowCif(row) == PyAdd(PyAdd(row.cost, row.freight), row.insurance)

\* results.append({...}) of the try block, with the 'CIF Value' it computes
NormalRow(row, parsed, cif) ==
    IF IsExc(cif) THEN ErrorRow(row, cif)
    ELSE ResultRow(row.hts_code, row.cost, cif, parsed.duty_amount, parsed.total_cost,
                   Absent)

\* the row appended once the report is parsed
ParsedRow(row, parsed) ==
    IF parsed.raised # Absent THEN ErrorRow(row, parsed.raised)
    ELSE NormalRow(row, parsed, RowCif(row))

\* the lines of the report, parsed by label
ParsedReport(result) == ParseLines(Split(result.s, "\n"), 1, PyInt(0), PyInt(0))

\* the row appended to results for one uploaded row
BatchRowFrom(row, tried) ==
    ParsedRow(row,
              ParsedReport(QuickFrom(tried, row.hts_code, row.cost, row.freight,
                                     row.insurance, row.quantity, row.unit_weight)))

BatchRow(st, row) == BatchRowFrom(row, TryBlock(st, row.hts_code))

\* a faulty variant of Appended: a row that failed is not recorded
AppendedUnlessError(rs, r) == IF r.error # Absent THEN rs ELSE Append(rs, r)

\* results.append(...), in the try block or in the except clause
Appended(rs, r) == Append(rs, r)

(***************************************************************************)
(* The agent's Duty_Calculator tool.                                       *)
(***************************************************************************)
\* int(w) for an unsigned text w: one or more digits (the texts of the model
\* hold no underscore)
UnsignedInt(w) ==
    IF w # <<>> /\ \A i \in 1..Len(w) : IsDigit(w[i]) THEN PyInt(DigitsValue(w))
    ELSE Exc("ValueError")

NegatedInt(v) == IF IsExc(v) THEN v ELSE PyInt(-v.n)

\* int(u) for a text u without surrounding whitespace
SignedInt(u) ==
    IF u # <<>> /\ u[1] = "-" THEN NegatedInt(UnsignedInt(Tail(u)))
    ELSE IF u # <<>> /\ u[1] = "+" THEN UnsignedInt(Tail(u))
    ELSE UnsignedInt(u)

\* int(s) for a text s
ParseInt(s) == SignedInt(Strip(s))

\* the message returned for an input of fewer than six parts
FormatError ==
    Str(<<"Error", ":", " ", "Please provide input in format 'hts_code,cost,freight,insurance,quantity,unit_weight'">>)

\* the arguments of ProductInfo(...), evaluated in order
ToolArguments(parts) ==
    <<Str(Strip(parts[1])), PyFloat(parts[2]), PyFloat(parts[3]), PyFloat(parts[4]),
      ParseInt(parts[5]), PyFloat(parts[6])>>

\* a faulty variant of ConversionRaises: no conversion is seen to fail
ConversionNeverRaises(arguments) == FALSE

\* whether one of the conversions raises
ConversionRaises(arguments) == \E i \in 1..6 : IsExc(arguments[i])

\* the exception of the first conversion that raises
ConversionError(arguments) ==
    arguments[CHOOSE i \in 1..6 :
                  IsExc(arguments[i]) /\ \A j \in 1..(i - 1) : ~IsExc(arguments[j])]

\* ProductInfo(hts_code=parts[0].strip(), cost=float(parts[1]), ...)
ToolProduct(arguments) ==
    ProductInfo(arguments[1].s, arguments[2], arguments[3], arguments[4],
                arguments[5], arguments[6])

\* the tool after its check of the number of parts
ToolConverted(st, arguments) ==
    IF ConversionRaises(arguments) THEN ErrorText(ConversionError(arguments))
    ELSE Calculated(calculate_duty(st, ToolProduct(arguments)))

\* the tool after input_str.split(',')
ToolSplit(st, parts) ==
    IF Len(parts) < 6 THEN FormatError ELSE ToolConverted(st, ToolArguments(parts))

\* the Duty_Calculator tool (calculate_duty in HTSAgent._create_tools): always
\* a text
calculate_duty_tool(st, input_str) == ToolSplit(st, Split(input_str, ","))

\* whether the tool reaches self.duty_calculator.calculate_duty
ToolCalculates(parts) == Len(parts) >= 6 /\ ~ConversionRaises(ToolArguments(parts))

\* the code the tool looks up
ToolCode(parts) == Strip(parts[1])

(***************************************************************************)
(* The ingestion: HTSDataIngestion.download_hts_range_with_retry, and      *)
(* run_ingestion around it.  A download is a record: its position pc, the  *)
(* files of the data directory, the range k being downloaded, the attempt, *)
(* and per range the log of what the call did and the result it returned.  *)
(***************************************************************************)
MinFileSize == 1000         \* st_size > 1000
MinResponseLength == 100    \* len(response.text) < 100
DefaultRetries == 3         \* max_retries: int = 3

\* self.hts_ranges, cut to its first two ranges
Ranges == <<"agricultural", "chemicals">>

File(exists, size) == [exists |-> exists, size |-> size]
Missing == File(FALSE, 0)

\* a faulty variant of AlreadyDownloaded: any file that exists is kept
ExistsOnly(file) == file.exists

\* csv_path.exists() and csv_path.stat().st_size > 1000
AlreadyDownloaded(file) == file.exists /\ file.size > MinFileSize

\* what the server does with a request: the connection fails (requests.get
\* raises), or a response of some status and some length arrives
Response(kind, length) == [kind |-> kind, length |-> length]

\* whether the response gets past raise_for_status and the length check
Passes(response) == response.kind = "ok" /\ ~(response.length < MinResponseLength)

\* for attempt in range(max_retries)
InRange(attempt, max_retries) == attempt < max_retries

\* if attempt == max_retries - 1
LastAttempt(attempt, max_retries) == attempt = max_retries - 1

\* a faulty variant of WaitsBefore: the first attempt waits too
WaitsAlways(attempt) == TRUE

\* if attempt > 0: time.sleep(delay)
WaitsBefore(attempt) == attempt > 0

\* the log of the call on range k, with the events added
Logged(d, events) == [d EXCEPT !.log[d.k] = @ \o events]

\* with open(csv_path, 'w') as f: f.write(response.text)
Written(d, response) ==
    [Logged(d, <<"write">>) EXCEPT !.files[d.k] = File(TRUE, response.length)]

\* if result: downloaded_files.append(result)
Collected(d, result) ==
    IF result = "path" THEN [d EXCEPT !.csv_files = Append(@, d.k)] ELSE d

\* the caller after the call has returned: a direct caller is done;
\* download_hts_csvs collects the result and goes on to the next range, and
\* after the last one run_ingestion comes to the database
Continued(d) ==
    IF d.mode = "call" THEN [d EXCEPT !.pc = "done"]
    ELSE IF d.k < Len(d.files) THEN [d EXCEPT !.k = @ + 1, !.attempt = 0, !.pc = "call"]
    ELSE [d EXCEPT !.pc = "database"]

\* return result, and what the caller does with it
Return(d, result) == Continued(Collected([d EXCEPT !.results[d.k] = result], result))

\* the call up to the loop: the path at once if the file is already there
Called(d) ==
    IF AlreadyDownloaded(d.files[d.k]) THEN Return(d, "path")
    ELSE IF InRange(0, d.max_retries) THEN [d EXCEPT !.attempt = 0, !.pc = "attempt"]
    ELSE Return(d, "none")

\* the except clauses: None after the last attempt, else the next attempt; the
\* loop ends and None is returned when no attempt is left
AttemptFailed(d) ==
    IF LastAttempt(d.attempt, d.max_retries) THEN Return(d, "none")
    ELSE IF InRange(d.attempt + 1, d.max_retries) THEN [d EXCEPT !.attempt = @ + 1]
    ELSE Return(d, "none")

\* the attempt after requests.get: the file is written and the path returned
\* (whether or not the file validates as a CSV), or an exception is raised
Requested(d, response) ==
    IF Passes(response) THEN Return(Written(Logged(d, <<"pass">>), response), "path")
    ELSE AttemptFailed(Logged(d, <<"fail">>))

\* the attempt after its wait
Waited(d, response) == Requested(Logged(d, <<"get">>), response)

\* one iteration of the loop
Attempted(d, response) ==
    IF WaitsBefore(d.attempt) THEN Waited(Logged(d, <<"wait">>), response)
    ELSE Waited(d, response)

\* if csv_files: self.create_sqlite_database(csv_files)
CreatesDatabase(csv_files) == csv_files # <<>>

\* create_sqlite_database: it connects, and makes or replaces a table for each
\* file that enhance_csv_data and to_sql accept
create_sqlite_database(d, accepted) ==
    IF d.csv_files = <<>> THEN d
    ELSE [d EXCEPT !.connected = TRUE,
                   !.tables = {d.csv_files[i] : i \in accepted \cap (1..Len(d.csv_files))}]

\* run_ingestion after the downloads
Ingested(d, accepted) ==
    IF CreatesDatabase(d.csv_files)
    THEN [create_sqlite_database(d, accepted) EXCEPT !.pc = "done"]
    ELSE [d EXCEPT !.pc = "done"]

(***************************************************************************)
(* The inputs of the model.                                                *)
(***************************************************************************)
RECURSIVE SeqsUpTo(_, _)
\* the sequences of at most k elements of S
SeqsUpTo(S, k) ==
    IF k = 0 THEN {<<>>}
    ELSE SeqsUpTo(S, k - 1) \cup {Append(q, x) : q \in SeqsUpTo(S, k - 1), x \in S}

RECURSIVE Concat(_)
Concat(parts) == IF parts = <<>> THEN <<>> ELSE Head(parts) \o Concat(Tail(parts))

\* rate texts: the concatenations of at most MaxParts fragments
Fragments ==
    {<<"f", "r", "e", "e">>, <<"F", "r", "E", "e">>, <<" ">>, <<"0">>, <<"5">>,
     <<"2", ".", "5">>, <<".">>, <<"%">>, <<"¢">>, <<"/", "k", "g">>, <<"$">>, <<"x">>}
RateTexts == {Concat(parts) : parts \in SeqsUpTo(Fragments, MaxParts)}
RateInputs == {None, NaN} \cup {Str(s) : s \in RateTexts}

\* classification codes 0101.21.00 .. 0109.21.00
Code(k) == <<"0", "1", "0", Digits[k + 1], ".", "2", "1", ".", "0", "0">>
AbsentCode == <<"9", "9", "9", "9", ".", "0", "0", ".", "0", "0">>
PrefixCode == <<"0", "1">>
\* a code that holds the character _
WildCode == <<"0", "1", "0", "_">>
ProductCodes == {Code(k) : k \in 1..9} \cup {AbsentCode, PrefixCode, WildCode}

Horses == Str(<<"Live horses">>)

\* a table with both code columns, the codes in hts_code, one row per rate form
TableA ==
    Table({"hts_code", "hts_number", "duty_rate", "product_description"},
          <<Row(Str(Code(1)), None, Str(<<"5", "%">>), Horses),
            Row(Str(Code(2)), None, Str(<<"F", "r", "e", "e">>), Horses),
            Row(Str(Code(3)), None, Str(<<"2", "5", "¢", "/", "k", "g">>), Horses),
            Row(Str(Code(4)), None, Str(<<"$", "2", ".", "5", "0">>), Horses),
            Row(Str(Code(5)), None, None, Horses),
            Row(Str(Code(6)), None, Str(<<"s", "e", "e", " ", "n", "o", "t", "e">>), Horses),
            Row(Str(Code(7)), None, Str(<<"5", ".", "5", "%">>), Horses),
            Row(Str(Code(8)), None, Str(<<>>), Horses),
            Row(Str(Code(9)), None, NaN, Horses)>>)

\* a table with both code columns, the codes in hts_number
TableB ==
    Table({"hts_code", "hts_number", "duty_rate", "product_description"},
          <<Row(None, Str(Code(1) \o <<".", "1", "0">>), Str(<<"1", "0", "%">>), Horses),
            Row(None, Str(Code(2)), Str(<<"$", "1">>), Horses)>>)

\* a table that names its code column hts_number only
TableC ==
    Table({"hts_number", "duty_rate", "product_description"},
          <<Row(None, Str(Code(1)), Str(<<"5", "%">>), Horses)>>)

\* a table without a duty_rate and a product_description column
TableD ==
    Table({"hts_code", "hts_number"},
          <<Row(Str(Code(1)), Str(Code(1)), None, None),
            Row(Str(Code(3)), Str(Code(3)), None, None)>>)

\* a table that names its code column hts_code only
TableE ==
    Table({"hts_code", "duty_rate", "product_description"},
          <<Row(Str(Code(1)), None, Str(<<"5", "%">>), Horses)>>)

Tables == {TableA, TableB, TableC, TableD, TableE}

Store(status, tables) == [status |-> status, tables |-> tables]
\* the tables of a database are distinct
Distinct(tbs) == \A i, j \in 1..Len(tbs) : tbs[i] = tbs[j] => i = j
Stores ==
    {Store("ok", tbs) : tbs \in {q \in SeqsUpTo(Tables, MaxTables) : Distinct(q)}}
    \cup {Store("missing", <<>>), Store("corrupt", <<>>)}

NonNumeric == Str(<<"a", "b", "c">>)
Costs == {Int2Num(1000), Num(9999, 100), NonNumeric}
Freights == {Int2Num(100), Int2Num(0)}
Insurances == {Int2Num(50)}
\* quantity and unit weight of a shipment
Measures == {<<PyInt(10), Int2Num(100)>>, <<PyInt(3), Num(5, 2)>>}

Countries == {<<"C", "N">>, <<"D", "E">>}

\* ProductInfo(..., country_of_origin=origin)
WithOrigin(p, origin) == [p EXCEPT !.country_of_origin = origin]

\* cost, freight and insurance of a shipment: a shipment without freight
\* costs 1000
Amounts ==
    {a \in Costs \X Freights \X Insurances : a[2] = Int2Num(0) => a[1] = Int2Num(1000)}

\* measures and origin of a shipment: the larger shipment is the one from CN
Consignments ==
    {k \in Measures \X Countries : k[1][1] = PyInt(10) <=> k[2] = <<"C", "N">>}

\* cost, freight and insurance with an argument that is no number
TextAmounts ==
    {<<Int2Num(1000), NonNumeric, Int2Num(50)>>, <<Int2Num(1000), Int2Num(100), NonNumeric>>,
     <<NonNumeric, NonNumeric, NonNumeric>>}

Products ==
    {WithOrigin(ProductInfo(c, a[1], a[2], a[3], k[1][1], k[1][2]), k[2]) :
        c \in ProductCodes, a \in Amounts, k \in Consignments}
    \cup {ProductInfo(c, a[1], a[2], a[3], PyInt(10), Int2Num(100)) :
              c \in ProductCodes, a \in TextAmounts}

\* the records of an uploaded file: the cost is the text of its cell, and the
\* codes are texts that read_csv keeps as texts
BatchCodes == {Code(1), Code(2), AbsentCode}
BatchCosts == {Str(<<"1", "0", "0", "0", ".", "0">>), NonNumeric}
BatchInputs ==
    {ProductInfo(c, cost, Int2Num(100), Int2Num(50), PyInt(10), Int2Num(100)) :
        c \in BatchCodes, cost \in BatchCosts}

\* whether read_csv reads the cell as a number
IsNumericCell(cell) == ~IsExc(PyFloat(cell.s))

\* the cost of record i in the frame: a column whose cells all read as numbers
\* is a float column, a column with a cell that does not keeps every cell's text
CostColumn(file, i) ==
    IF \A j \in 1..Len(file) : IsNumericCell(file[j].cost)
    THEN PyFloat(file[i].cost.s)
    ELSE file[i].cost

\* df = pd.read_csv(uploaded_file), as the sequence of its rows
read_csv(file) == [i \in 1..Len(file) |-> [file[i] EXCEPT !.cost = CostColumn(file, i)]]
BatchStores == {Store("ok", <<TableA>>), Store("missing", <<>>)}

RECURSIVE Join(_)
\* ",".join(fields)
Join(fields) ==
    IF fields = <<>> THEN <<>>
    ELSE IF Len(fields) = 1 THEN fields[1]
    ELSE fields[1] \o <<",">> \o Join(Tail(fields))

\* the inputs of the Duty_Calculator tool: the six fields of the tool's
\* example, the same with one field replaced, with fields missing, and with a
\* seventh field
ToolCodes == {Code(1), AbsentCode}
ExampleFields(code) ==
    <<code, <<"1", "0", "0", "0">>, <<"1", "0", "0">>, <<"5", "0">>, <<"1", "0">>,
      <<"1", "0", "0">>>>
OtherFields ==
    {<<"a", "b", "c">>, <<>>, <<"2", ".", "5">>, <<"$", "5", "0">>, <<" ", "5", "0">>}
ToolFields ==
    {ExampleFields(c) : c \in ToolCodes}
    \cup {[ExampleFields(c) EXCEPT ![i] = f] :
              c \in ToolCodes, i \in 2..6, f \in OtherFields}
    \cup {SubSeq(ExampleFields(c), 1, k) : c \in ToolCodes, k \in 0..5}
    \cup {Append(ExampleFields(c), <<"7">>) : c \in ToolCodes}
ToolInputs == {Join(fields) : fields \in ToolFields}
ToolStores == BatchStores \cup {Store("ok", <<TableC>>)}

\* the target file of a download: missing, of 1000 bytes, or of 1001 bytes
FileStates == {Missing, File(TRUE, MinFileSize), File(TRUE, MinFileSize + 1)}

\* the outcomes of a request: no connection, an error status, and responses
\* of 99, 100 and 1001 characters (one byte each)
Responses ==
    {Response("refused", 0), Response("error", MinFileSize + 1),
     Response("ok", MinResponseLength - 1), Response("ok", MinResponseLength),
     Response("ok", MinFileSize + 1)}

\* a download about to start, on the given files with the given max_retries
NewDownload(mode, max_retries, files) ==
    [pc |-> "call", mode |-> mode, max_retries |-> max_retries, files |-> files,
     before |-> files, k |-> 1, attempt |-> 0,
     log |-> [i \in 1..Len(files) |-> <<>>],
     results |-> [i \in 1..Len(files) |-> "pending"],
     csv_files |-> <<>>, connected |-> FALSE, tables |-> {}]

\* a direct call of download_hts_range_with_retry with any max_retries, or
\* run_ingestion over the ranges with the default max_retries
Downloads ==
    {NewDownload("call", m, <<f>>) : m \in 0..MaxRetries, f \in FileStates}
    \cup {NewDownload("ingest", DefaultRetries, files) :
              files \in [1..Len(Ranges) -> FileStates]}

(***************************************************************************)
(* The state machine.                                                      *)
(***************************************************************************)
NoCalc == Raised(None)      \* calculate_duty has not returned yet
NoProduct == ProductInfo(<<>>, None, None, None, None, None)
NoDownload == [pc |-> "idle"]

\* a caller about to calculate the duty of one product
EngineInit ==
    /\ store \in Stores
    /\ product \in Products
    /\ pc = "start"
    /\ rows = <<>>
    /\ rate_in = None
    /\ tool_in = <<>>
    /\ dl = NoDownload

\* the agent about to run its Duty_Calculator tool
ToolInit ==
    /\ store \in ToolStores
    /\ product = NoProduct
    /\ pc = "tool"
    /\ rows = <<>>
    /\ rate_in = None
    /\ tool_in \in ToolInputs
    /\ dl = NoDownload

\* the batch calculator about to loop over an uploaded file
BatchInit ==
    /\ store \in BatchStores
    /\ product = NoProduct
    /\ pc = "batch"
    /\ rows \in {read_csv(file) : file \in SeqsUpTo(BatchInputs, MaxRows)}
    /\ rate_in = None
    /\ tool_in = <<>>
    /\ dl = NoDownload

\* the ingestion about to download
DownloadInit ==
    /\ store = Store("missing", <<>>)
    /\ product = NoProduct
    /\ pc = "ingest"
    /\ rows = <<>>
    /\ rate_in = None
    /\ tool_in = <<>>
    /\ dl \in Downloads

\* a caller about to parse a rate
ParseInit ==
    /\ store = Store("missing", <<>>)
    /\ product = NoProduct
    /\ pc = "parse"
    /\ rows = <<>>
    /\ rate_in \in RateInputs
    /\ tool_in = <<>>
    /\ dl = NoDownload

Init ==
    /\ (EngineInit \/ ToolInit \/ BatchInit \/ ParseInit \/ DownloadInit)
    /\ calc = NoCalc
    /\ report = None
    /\ idx = 0
    /\ results = <<>>
    /\ rate_out = Free
    /\ opened = 0
    /\ closed = 0
    /\ cancelled = FALSE

\* DutyCalculator.calculate_duty(product)
CalculateDuty ==
    /\ pc = "start"
    /\ \E tried \in {TryBlock(store, product.hts_code)} :
           /\ calc' = CalculatedFrom(product, tried)
           /\ closed' = closed + Closes(tried)
    /\ opened' = opened + 1
    /\ pc' = "calculated"
    /\ UNCHANGED <<store, product, report, rows, idx, results, rate_in, rate_out,
                 cancelled, tool_in, dl>>

\* DutyCalculator.format_calculation_result(calc)
FormatResult ==
    /\ pc = "calculated"
    /\ calc.raised = Absent
    /\ report' = format_calculation_result(calc)
    /\ pc' = "formatted"
    /\ UNCHANGED <<store, product, calc, rows, idx, results, rate_in, rate_out,
                 opened, closed, cancelled, tool_in, dl>>

\* HTSAgent.quick_duty_calculation(product's fields)
QuickDutyCalculation ==
    /\ pc = "start"
    /\ \E tried \in {TryBlock(store, product.hts_code)} :
           /\ report' = QuickFrom(tried, product.hts_code, product.cost,
                                  product.freight, product.insurance,
                                  product.quantity, product.unit_weight)
           /\ closed' = closed + Closes(tried)
    /\ opened' = opened + 1
    /\ pc' = "quick"
    /\ UNCHANGED <<store, product, calc, rows, idx, results, rate_in, rate_out,
                 cancelled, tool_in, dl>>

\* the agent runs its Duty_Calculator tool on tool_in
DutyCalculatorTool ==
    /\ pc = "tool"
    /\ report' = calculate_duty_tool(store, tool_in)
    /\ opened' = opened + (IF ToolCalculates(Split(tool_in, ",")) THEN 1 ELSE 0)
    /\ closed' = closed + (IF ToolCalculates(Split(tool_in, ","))
                           THEN CloseCalls(store, ToolCode(Split(tool_in, ",")))
                           ELSE 0)
    /\ pc' = "tool_done"
    /\ UNCHANGED <<store, product, calc, rows, idx, results, rate_in, rate_out,
                   cancelled, tool_in, dl>>

\* one iteration of the batch calculator's loop
ProcessRow ==
    /\ pc = "batch"
    /\ idx < Len(rows)
    /\ \E tried \in {TryBlock(store, rows[idx + 1].hts_code)} :
           /\ results' = Appended(results, BatchRowFrom(rows[idx + 1], tried))
           /\ closed' = closed + Closes(tried)
    /\ idx' = idx + 1
    /\ opened' = opened + 1
    /\ UNCHANGED <<store, product, calc, report, pc, rows, rate_in, rate_out,
                 cancelled, tool_in, dl>>

\* the user asks to stop the batch while the loop runs: the loop holds no
\* statement that reads the request
Cancel ==
    /\ pc = "batch"
    /\ Len(rows) <= MaxStopped
    /\ ~cancelled
    /\ cancelled' = TRUE
    /\ UNCHANGED <<store, product, calc, report, pc, rows, idx, results, rate_in,
                   rate_out, opened, closed, tool_in, dl>>

\* the loop is over: results becomes results_df
FinishBatch ==
    /\ pc = "batch"
    /\ idx = Len(rows)
    /\ pc' = "batch_done"
    /\ UNCHANGED <<store, product, calc, report, rows, idx, results, rate_in, rate_out,
                 opened, closed, cancelled, tool_in, dl>>

\* DutyCalculator.parse_duty_rate(rate_in)
ParseDutyRate ==
    /\ pc = "parse"
    /\ rate_out' = parse_duty_rate(rate_in)
    /\ pc' = "parsed"
    /\ UNCHANGED <<store, product, calc, report, rows, idx, results, rate_in,
                 opened, closed, cancelled, tool_in, dl>>

\* download_hts_range_with_retry is called for range dl.k
StartDownload ==
    /\ pc = "ingest"
    /\ dl.pc = "call"
    /\ dl' = Called(dl)
    /\ UNCHANGED <<store, product, calc, report, pc, rows, idx, results, rate_in,
                   rate_out, opened, closed, cancelled, tool_in>>

\* one attempt of the retry loop, with the server's response
DownloadAttempt ==
    /\ pc = "ingest"
    /\ dl.pc = "attempt"
    /\ \E response \in Responses : dl' = Attempted(dl, response)
    /\ UNCHANGED <<store, product, calc, report, pc, rows, idx, results, rate_in,
                   rate_out, opened, closed, cancelled, tool_in>>

\* run_ingestion comes to the database, which accepts some of the files
CreateDatabase ==
    /\ pc = "ingest"
    /\ dl.pc = "database"
    /\ \E accepted \in SUBSET (1..Len(Ranges)) : dl' = Ingested(dl, accepted)
    /\ UNCHANGED <<store, product, calc, report, pc, rows, idx, results, rate_in,
                   rate_out, opened, closed, cancelled, tool_in>>

Next ==
    \/ CalculateDuty
    \/ FormatResult
    \/ QuickDutyCalculation
    \/ DutyCalculatorTool
    \/ ProcessRow
    \/ Cancel
    \/ FinishBatch
    \/ ParseDutyRate
    \/ StartDownload
    \/ DownloadAttempt
    \/ CreateDatabase

Spec == Init /\ [][Next]_vars

(***************************************************************************)
(* The claims.                                                             *)
(***************************************************************************)
\* cost + freight + insurance of a shipment
InputCif(p) == PyAdd(PyAdd(p.cost, p.freight), p.insurance)
Zero == PyInt(0)
Returns == pc = "calculated" /\ calc.raised = Absent
Found == HtsData(store, product.hts_code) # <<>>
NumericInput(p) ==
    IsNum(p.cost) /\ IsNum(p.freight) /\ IsNum(p.insurance) /\ IsNum(p.quantity)
    /\ IsNum(p.unit_weight)

\* C1 as stated: for every shipment and every store state, found or not found,
\* the result of calculate_duty has cif_value = cost + freight + insurance.
C1_CifIsSumAlways ==
    (Returns /\ NumericInput(product)) => NumEq(calc.cif_value, InputCif(product))

\* C1 amended: the result of calculate_duty has cif_value = cost + freight +
\* insurance when the lookup finds a record, and cif_value = 0 when it finds none.
C1_CifIsSumWhenFound ==
    Returns =>
        IF Found THEN NumEq(calc.cif_value, InputCif(product))
        ELSE NumEq(calc.cif_value, Zero)

C1_Witness ==
    /\ Returns
    /\ Found
    /\ product.insurance = Int2Num(50)
    /\ NumEq(calc.cif_value, Num(24999, 100))

\* C2: every result of calculate_duty, found (whatever the rate kind) or not
\* found, has total_landed_cost = cif_value + duty_amount.
C2_TotalIsCifPlusDuty ==
    Returns => NumEq(calc.total_landed_cost, PyAdd(calc.cif_value, calc.duty_amount))

C2_Witness ==
    /\ Returns
    /\ calc.duty_type = "cents_per_kg"
    /\ NumEq(calc.cif_value, Int2Num(1150))
    /\ NumEq(calc.duty_amount, Int2Num(250))
    /\ NumEq(calc.total_landed_cost, Int2Num(1400))

\* C3: when the lookup yields no record, calculate_duty returns the description
\* "HTS code not found", the duty type "unknown" and cif_value, duty_amount and
\* total_landed_cost 0, whatever the amounts of the input are.
C3_NotFoundIsZero ==
    (pc = "calculated" /\ ~Found) =>
        /\ calc.raised = Absent
        /\ calc.product_description = Str(<<"HTS code not found">>)
        /\ calc.duty_type = "unknown"
        /\ NumEq(calc.cif_value, Zero)
        /\ NumEq(calc.duty_amount, Zero)
        /\ NumEq(calc.total_landed_cost, Zero)

C3_Witness ==
    /\ pc = "calculated"
    /\ ~Found
    /\ store.status = "ok"
    /\ Len(store.tables) = 2
    /\ product.cost = Int2Num(1000)
    /\ product.freight = Int2Num(100)
    /\ calc.product_description = Str(<<"HTS code not found">>)

\* C4 as stated: every result of calculate_duty, found or not found, has a
\* breakdown with the six keys, whose cif_value, duty_amount and
\* total_landed_cost equal the fields of the same name.
C4_BreakdownHasSixKeys ==
    Returns =>
        /\ DOMAIN calc.breakdown = BreakdownKeys
        /\ calc.breakdown["cif_value"] = calc.cif_value
        /\ calc.breakdown["duty_amount"] = calc.duty_amount
        /\ calc.breakdown["total_landed_cost"] = calc.total_landed_cost

\* the line of a text that holds the label, as <<line>>, or <<>>
LinesWith(text, label) ==
    SelectSeq(Split(text, "\n"), LAMBDA line : Contains(line, <<label, ":">>))

\* whether the text after the "$" of a line is an amount with two decimals
TwoDecimals(line) ==
    /\ \E i \in 1..Len(line) : line[i] = "$"
    /\ Len(line) = DotAt(line) + 2
    /\ IsDigit(line[Len(line)])
    /\ IsDigit(line[Len(line) - 1])
    /\ IsDigit(line[DotAt(line) - 1])

ReportLabels ==
    {"HTS Code", "Product", "Product Cost", "Freight", "Insurance", "CIF Value",
     "Duty Rate", "Duty Type", "Duty Amount", "Total Landed Cost"}
CurrencyLabels ==
    {"Product Cost", "Freight", "Insurance", "CIF Value", "Duty Amount",
     "Total Landed Cost"}

\* C5 as stated: for every result calculate_duty can return, the not-found one
\* included, format_calculation_result returns a report without raising, with
\* the ten labelled lines and every currency value with two decimals.
C5_ReportForEveryResult ==
    (pc = "formatted") =>
        /\ IsStr(report)
        /\ \A label \in ReportLabels : Len(LinesWith(report.s, label)) >= 1
        /\ \A label \in CurrencyLabels : TwoDecimals(LinesWith(report.s, label)[1])

\* the amount v rounded to two decimals
Rounded2(v) == Num((IF v.n < 0 THEN -1 ELSE 1) * RoundCents(v.n, v.d), 100)

\* the uploaded row i has a successful calculation: calculate_duty returns a
\* result for a code the lookup finds
Successful(i) ==
    /\ HtsData(store, rows[i].hts_code) # <<>>
    /\ calculate_duty(store, rows[i]).raised = Absent

\* C6 as stated: for every successful calculation, re-parsing the report by
\* label recovers the duty amount and the total landed cost (to two decimals)
\* and the row is recorded without an Error.
C6_ReportRoundTrip ==
    \A i \in 1..Len(results) :
        Successful(i) =>
            /\ results[i].error = Absent
            /\ NumEq(results[i].duty_amount,
                     Rounded2(calculate_duty(store, rows[i]).duty_amount))
            /\ NumEq(results[i].total_landed_cost,
                     Rounded2(calculate_duty(store, rows[i]).total_landed_cost))

\* C7: the batch calculator produces one output row per input row, in input
\* order: after k iterations results has k rows, row i carries the code of
\* input row i, and after the loop results is as long as the input, whichever
\* rows failed.
C7_OneRowPerInput ==
    /\ Len(results) = idx
    /\ \A i \in 1..Len(results) : results[i].hts_code = rows[i].hts_code
    /\ (pc = "batch_done" => Len(results) = Len(rows))

C7_Witness ==
    /\ pc = "batch_done"
    /\ Len(rows) = 3
    /\ Len(results) = 3
    /\ results[1].error = Absent
    /\ results[2].error # Absent
    /\ rows[1].hts_code # rows[3].hts_code

\* the cost of the uploaded record is a number (as a float of a numeric column
\* or as its text in a column that holds a non-numeric cell)
NumericCost(row) == IsNum(row.cost) \/ (IsStr(row.cost) /\ IsNumericCell(row.cost))

\* exactly row k has a non-numeric cost, the other rows are valid and their
\* codes are present in the schedule
OnlyRowInvalid(k) ==
    /\ ~NumericCost(rows[k])
    /\ \A i \in (1..Len(rows)) \ {k} :
        NumericCost(rows[i]) /\ HtsData(store, rows[i].hts_code) # <<>>

\* C8 as stated: in a batch where exactly row k has a non-numeric cost and the
\* other rows are valid with codes in the schedule, the output has N rows in
\* order, row k carries an Error and every other row is a normal result
\* without an Error, with its computed duty amount and total landed cost.
C8_OnlyBadRowFails ==
    \A k \in 1..Len(rows) :
        (pc = "batch_done" /\ OnlyRowInvalid(k)) =>
            /\ Len(results) = Len(rows)
            /\ results[k].error # Absent
            /\ \A i \in (1..Len(rows)) \ {k} :
                /\ results[i].hts_code = rows[i].hts_code
                /\ results[i].error = Absent
                /\ NumEq(results[i].duty_amount,
                         Rounded2(calculate_duty(store, rows[i]).duty_amount))
                /\ NumEq(results[i].total_landed_cost,
                         Rounded2(calculate_duty(store, rows[i]).total_landed_cost))

\* the calculation of the uploaded row i failed
Failed(i) == calculate_duty(store, rows[i]).raised # Absent

\* C9 as stated: every row of the batch output has Total Landed Cost = CIF
\* Value + Duty Amount; a row whose code is absent from every table is a
\* zero-valued row; the Error column is filled only for rows that failed.
C9_OutputRowsConsistent ==
    \A i \in 1..Len(results) :
        /\ NumEq(results[i].total_landed_cost,
                 PyAdd(results[i].cif_value, results[i].duty_amount))
        /\ (HtsData(store, rows[i].hts_code) = <<>> /\ NumericInput(rows[i])) =>
               /\ NumEq(results[i].cif_value, Zero)
               /\ NumEq(results[i].duty_amount, Zero)
               /\ NumEq(results[i].total_landed_cost, Zero)
        /\ results[i].error # Absent => Failed(i)

RateKinds == {"free", "percentage", "cents_per_kg", "dollars_per_unit"}

\* no pattern of the parser matches the trimmed, lower-cased text
NoPattern(s) ==
    PercentMatch(s) = <<>> /\ CentsKgMatch(s) = <<>> /\ DollarUnitMatch(s) = <<>>

\* C10: parse_duty_rate never raises: for None, NaN, the empty text and any
\* text it returns a pair (kind, value), and a text that matches none of the
\* percentage, cents-per-kilogram and dollar patterns yields (free, 0).
C10_ParseNeverRaises ==
    (pc = "parsed") =>
        /\ rate_out.type \in RateKinds
        /\ IsNum(rate_out.value)
        /\ (IsStr(rate_in) /\ NoPattern(Normalized(rate_in))) => rate_out = Free

C10_Witness ==
    /\ pc = "parsed"
    /\ rate_in = Str(<<"5", "x", "%">>)
    /\ NoPattern(Normalized(rate_in))
    /\ rate_out = Free

\* rule 1 covers the trimmed, lower-cased text: it is empty, equals "0" or
\* contains "free"
Rule1(s) == s = <<>> \/ s = <<"0">> \/ Contains(s, <<"f", "r", "e", "e">>)

\* C11: a rate text that, trimmed and lower-cased, is empty, equals "0" or
\* contains "free" yields (free, 0), also when it holds a percentage, a /kg
\* amount or a dollar amount, for any letter case and surrounding whitespace.
C11_FreeRuleDominates ==
    (pc = "parsed" /\ IsStr(rate_in) /\ Rule1(Normalized(rate_in))) =>
        /\ rate_out.type = "free"
        /\ NumEq(rate_out.value, Int2Num(0))

C11_Witness ==
    /\ pc = "parsed"
    /\ rate_in = Str(<<"F", "r", "E", "e", "5", "%">>)
    /\ PercentMatch(Normalized(rate_in)) = <<<<"5">>>>
    /\ rate_out.type = "free"

\* C12: a text that rule 1 does not cover is classified by the first pattern
\* that matches, in the order percentage, cents per kilogram, dollars, and
\* the value is the number of the pattern that decided the kind.
C12_FirstPatternDecides ==
    (pc = "parsed" /\ IsStr(rate_in) /\ ~Rule1(Normalized(rate_in))) =>
        /\ PercentMatch(Normalized(rate_in)) # <<>> =>
               /\ rate_out.type = "percentage"
               /\ NumEq(rate_out.value, PyFloat(PercentMatch(Normalized(rate_in))[1]))
        /\ (PercentMatch(Normalized(rate_in)) = <<>>
            /\ CentsKgMatch(Normalized(rate_in)) # <<>>) =>
               /\ rate_out.type = "cents_per_kg"
               /\ NumEq(rate_out.value, PyFloat(CentsKgMatch(Normalized(rate_in))[1]))
        /\ (PercentMatch(Normalized(rate_in)) = <<>>
            /\ CentsKgMatch(Normalized(rate_in)) = <<>>
            /\ DollarUnitMatch(Normalized(rate_in)) # <<>>) =>
               /\ rate_out.type = "dollars_per_unit"
               /\ NumEq(rate_out.value, PyFloat(DollarUnitMatch(Normalized(rate_in))[1]))

\* the text "$5%" matches the percentage pattern and the dollar pattern
C12_Witness ==
    /\ pc = "parsed"
    /\ rate_in = Str(<<"$", "5", "%">>)
    /\ DollarUnitMatch(Normalized(rate_in)) = <<<<"5">>>>
    /\ rate_out = Rate("percentage", Int2Num(5))

\* C13: every pair parse_duty_rate returns has one of the four kinds and a
\* value that is a number >= 0, and the kind free has the value 0.
C13_RateWellFormed ==
    (pc = "parsed") =>
        /\ rate_out.type \in RateKinds
        /\ IsNum(rate_out.value)
        /\ rate_out.value.n >= 0
        /\ rate_out.type = "free" => rate_out.value.n = 0

C13_Witness ==
    /\ pc = "parsed"
    /\ rate_in = Str(<<"2", ".", "5", "¢", "/", "k", "g">>)
    /\ rate_out = Rate("cents_per_kg", Num(5, 2))

\* the record the lookup returns for the product, and the rate it carries
FoundRecord == HtsData(store, product.hts_code)[1]
RecordRateText == DictGet(FoundRecord, "duty_rate", Str(<<"F", "r", "e", "e">>))
RecordRate == parse_duty_rate(RecordRateText)

\* the duty of the shipment p at the rate of the given kind and value, by the
\* formula of the kind
DutyByKind(kind, value, p) ==
    CASE kind = "percentage" ->
            Num(value.n * InputCif(p).n, value.d * 100 * InputCif(p).d)
      [] kind = "cents_per_kg" ->
            Num(value.n * p.quantity.n * p.unit_weight.n,
                value.d * 100 * p.unit_weight.d)
      [] kind = "dollars_per_unit" -> Num(value.n * p.quantity.n, value.d)
      [] OTHER -> Int2Num(0)

\* the shipment of the end-to-end example
ExampleShipment ==
    /\ product.hts_code = Code(1)
    /\ product.cost = Int2Num(1000)
    /\ product.freight = Int2Num(100)
    /\ product.insurance = Int2Num(50)
    /\ product.quantity = PyInt(10)
    /\ product.unit_weight = Int2Num(100)

\* C14: in the found case the duty amount follows from the rate kind alone:
\* free gives 0, percentage value/100 * cif, cents_per_kg value/100 *
\* (quantity * unit_weight), dollars_per_unit value * quantity; cost 1000,
\* freight 100, insurance 50, quantity 10, unit weight 100 at the rate "5%"
\* gives CIF 1150, duty 57.5 and total 1207.5.
C14_DutyByRateKind ==
    (Returns /\ Found) =>
        /\ calc.duty_type = RecordRate.type
        /\ NumEq(calc.duty_amount, DutyByKind(RecordRate.type, RecordRate.value, product))
        /\ (ExampleShipment /\ RecordRateText = Str(<<"5", "%">>)) =>
               /\ NumEq(calc.cif_value, Int2Num(1150))
               /\ NumEq(calc.duty_amount, Num(115, 2))
               /\ NumEq(calc.total_landed_cost, Num(2415, 2))

C14_Witness ==
    /\ Returns
    /\ Found
    /\ ExampleShipment
    /\ RecordRateText = Str(<<"5", "%">>)
    /\ NumEq(calc.duty_amount, Num(115, 2))

\* whether a row of the table holds the code in a code column of the table
CodeColumnMatches(tb, r, hts_code) ==
    \/ "hts_code" \in tb.cols /\ ColumnLike(r.hts_code, hts_code)
    \/ "hts_number" \in tb.cols /\ ColumnLike(r.hts_number, hts_code)

MatchingRows(tb, hts_code) ==
    {k \in 1..Len(tb.rows) : CodeColumnMatches(tb, tb.rows[k], hts_code)}

\* the tables of the store in which the code matches a row
MatchingTables ==
    {i \in 1..Len(store.tables) : MatchingRows(store.tables[i], product.hts_code) # {}}

\* the first matching row of the first table in which the code matches a row
FirstMatch ==
    [cols |-> store.tables[Least(MatchingTables)].cols,
     row |-> store.tables[Least(MatchingTables)].rows[
                 Least(MatchingRows(store.tables[Least(MatchingTables)],
                                    product.hts_code))]]

\* C15 as stated: when the code matches rows in two or more tables,
\* get_hts_data returns the first matching row of the table that comes first
\* in the enumeration order, never a row of a later table.
C15_FirstMatchAcrossTables ==
    (pc = "calculated" /\ store.status = "ok" /\ Cardinality(MatchingTables) >= 2) =>
        HtsData(store, product.hts_code) = <<FirstMatch>>

\* whether the text of the value holds the code as a contiguous part
HoldsCode(value, hts_code) == IsStr(value) /\ Contains(value.s, hts_code)

\* whether a row of the table holds the code, literally, in a code column
LiteralMatch(tb, r, hts_code) ==
    \/ "hts_code" \in tb.cols /\ HoldsCode(r.hts_code, hts_code)
    \/ "hts_number" \in tb.cols /\ HoldsCode(r.hts_number, hts_code)

\* C16 as stated: when get_hts_data returns a record, the code is a literal
\* contiguous part of the record's hts_code or hts_number, also for a code
\* that holds % or _, and it returns None when no record of any table holds
\* the code.
C16_SubstringOnly ==
    (pc = "calculated") =>
        /\ Found =>
               \/ HoldsCode(FoundRecord.row.hts_code, product.hts_code)
               \/ HoldsCode(FoundRecord.row.hts_number, product.hts_code)
        /\ (\A i \in 1..Len(TableNames(store)) :
               \A k \in 1..Len(store.tables[i].rows) :
                   ~LiteralMatch(store.tables[i], store.tables[i].rows[k],
                                 product.hts_code)) => ~Found

\* the table names exactly one of the two code columns
OneCodeColumn(tb) == Cardinality(tb.cols \cap {"hts_code", "hts_number"}) = 1

\* C17 as stated: for a table that names its code column hts_code only, or
\* hts_number only, a row whose code value holds the queried code is found
\* and returned.
C17_EitherColumnName ==
    (/\ pc = "calculated"
     /\ store.status = "ok"
     /\ Len(store.tables) = 1
     /\ OneCodeColumn(store.tables[1])
     /\ \E k \in 1..Len(store.tables[1].rows) :
            LiteralMatch(store.tables[1], store.tables[1].rows[k], product.hts_code))
    => Found

\* the lookup fails: the file is missing or no database, the database has no
\* table, or the query fails on a table that the scan reaches
LookupFails ==
    \/ store.status # "ok"
    \/ store.tables = <<>>
    \/ \E i \in 1..Len(store.tables) :
          /\ QueryFails(store.tables[i])
          /\ \A j \in 1..(i - 1) :
                 /\ ~QueryFails(store.tables[j])
                 /\ Matching(store.tables[j], product.hts_code) = {}

\* C18: a failure of the lookup never leaves get_hts_data: it returns None,
\* and calculate_duty returns the not-found result, not an error.
C18_LookupFailuresContained ==
    (pc = "calculated" /\ LookupFails) =>
        /\ get_hts_data(store, product.hts_code) = TryReturn(<<>>)
        /\ calc.raised = Absent
        /\ calc.product_description = Str(<<"HTS code not found">>)
        /\ calc.duty_type = "unknown"

C18_Witness ==
    /\ pc = "calculated"
    /\ store.status = "ok"
    /\ Len(store.tables) = 2
    /\ store.tables[1] = TableB
    /\ QueryFails(store.tables[2])
    /\ product.hts_code = Code(3)
    /\ calc.duty_type = "unknown"

\* the rate text of the record cannot be parsed: it is no text, or a text that
\* no pattern matches
Unparseable(v) == ~IsStr(v) \/ NoPattern(Normalized(v))

\* C19: calculate_duty never raises for an input whose amounts, quantity and
\* weight are numbers, whatever the store and the rate text of the record; a
\* record whose rate text cannot be parsed gives duty_type free, duty_amount 0
\* and total_landed_cost = cif_value.
C19_NeverRaisesOnNumbers ==
    (pc = "calculated" /\ NumericInput(product)) =>
        /\ calc.raised = Absent
        /\ (Found /\ Unparseable(RecordRateText)) =>
               /\ calc.duty_type = "free"
               /\ NumEq(calc.duty_amount, Int2Num(0))
               /\ NumEq(calc.total_landed_cost, InputCif(product))

C19_Witness ==
    /\ pc = "calculated"
    /\ NumericInput(product)
    /\ Found
    /\ RecordRateText = None
    /\ calc.duty_type = "free"
    /\ NumEq(calc.total_landed_cost, Int2Num(1050))

\* the fields of a result that the calculation decides
Decided(c) ==
    <<c.raised, c.product_description, c.duty_rate, c.duty_type, c.cif_value,
      c.duty_amount, c.total_landed_cost, c.breakdown>>

\* C20: two inputs that differ only in country_of_origin give, against the
\* same store, results with the same description, rate text, duty_type,
\* cif_value, duty_amount, total_landed_cost and breakdown.
C20_OriginHasNoInfluence ==
    (pc = "calculated") =>
        \A origin \in Countries :
            Decided(calculate_duty(store, WithOrigin(product, origin))) = Decided(calc)

C20_Witness ==
    /\ Returns
    /\ Found
    /\ product.country_of_origin = <<"D", "E">>
    /\ NumEq(calc.cif_value, Int2Num(1150))
    /\ calc.duty_type = "percentage"

(***************************************************************************)
(* C21.                                                                    *)
(***************************************************************************)
\* whether a field is no number: it holds a character that no number holds,
\* or no digit at all
NotANumber(field) ==
    \/ \E i \in 1..Len(field) : ~(IsDigit(field[i]) \/ field[i] \in {".", "-", "+", " "})
    \/ ~\E i \in 1..Len(field) : IsDigit(field[i])

\* fewer than six comma-separated fields, or a field of cost, freight,
\* insurance, quantity, unit weight that is no number
MalformedParts(parts) == Len(parts) < 6 \/ \E i \in 2..6 : NotANumber(parts[i])
Malformed(input_str) == MalformedParts(Split(input_str, ","))

\* a text that is an error message of the tool or of the quick calculation
IsErrorMessage(text) ==
    IsStr(text) /\ text.s # <<>> /\ text.s[1] \in {"Error", "Error calculating duty"}
QuickError(text) ==
    IsStr(text) /\ Len(text.s) >= 2 /\ SubSeq(text.s, 1, 2) = <<"Error calculating duty", ":">>

\* a text that holds none of the currency lines of a duty report
NoNumbers(text) == \A label \in CurrencyLabels : ~Contains(text.s, <<label, ":">>)

NonNumericAmount(p) == ~IsNum(p.cost) \/ ~IsNum(p.freight) \/ ~IsNum(p.insurance)

\* C21: the Duty_Calculator tool returns an error message, having made no
\* lookup, when its input has fewer than six comma-separated fields or a
\* non-numeric cost, freight, insurance, quantity or unit weight;
\* quick_duty_calculation returns a text starting with "Error calculating
\* duty:" when its cost, freight or insurance is no number; in neither case
\* is a duty report with numbers produced.
C21_MalformedInputGivesError ==
    /\ (pc = "tool_done" /\ Malformed(tool_in))
           => IsErrorMessage(report) /\ NoNumbers(report) /\ opened = 0
    /\ (pc = "quick" /\ NonNumericAmount(product))
           => QuickError(report) /\ NoNumbers(report)

\* the tool has answered an input of six fields whose quantity is no number,
\* for a code the store holds
C21_Witness ==
    /\ pc = "tool_done"
    /\ Len(Split(tool_in, ",")) = 6
    /\ NotANumber(Split(tool_in, ",")[5])
    /\ HtsData(store, ToolCode(Split(tool_in, ","))) # <<>>

(***************************************************************************)
(* C22.                                                                    *)
(***************************************************************************)
\* C22 as stated: once the cancellation signal is raised no further row
\* computation is started, so the results hold the rows completed before it
\* and nothing more.
C22_NoRowAfterCancel == [][cancelled => (results' = results /\ idx' = idx)]_vars

(***************************************************************************)
(* C23.                                                                    *)
(***************************************************************************)
\* the tables without the one at position i
Without(tables, i) == SubSeq(tables, 1, i - 1) \o SubSeq(tables, i + 1, Len(tables))

\* the tables of the store in which the code matches no row
UnmatchedTables == {i \in 1..Len(store.tables) : i \notin MatchingTables}

\* C23 as stated: a table with no matching row never changes the result of
\* the lookup, wherever it falls in the enumeration order and whatever its
\* columns are: the lookup returns what it returns on the store without that
\* table, so a match in a later table is still returned.
C23_UnmatchedTableIsNeutral ==
    (pc = "calculated" /\ store.status = "ok") =>
        \A i \in UnmatchedTables :
            HtsData(store, product.hts_code)
                = HtsData(Store("ok", Without(store.tables, i)), product.hts_code)

(***************************************************************************)
(* C24.                                                                    *)
(***************************************************************************)
\* C24 as stated: every call of get_hts_data closes the connection it opened
\* before it returns, on the match, no-match and exception exits alike, so
\* after any sequence of lookups every connection opened has been closed.
C24_ConnectionsClosed == closed = opened

(***************************************************************************)
(* C25.                                                                    *)
(***************************************************************************)
\* a >= b for two numbers: by their whole parts, then by their fractions
Geq(a, b) ==
    \/ a.n \div a.d > b.n \div b.d
    \/ /\ a.n \div a.d = b.n \div b.d
       /\ (a.n % a.d) * b.d >= (b.n % b.d) * a.d

NonNegative(v) == IsNum(v) /\ v.n >= 0

\* non-negative cost, freight, insurance and unit weight, a quantity of one
\* or more
ValidShipment(p) ==
    /\ NonNegative(p.cost) /\ NonNegative(p.freight) /\ NonNegative(p.insurance)
    /\ IsInt(p.quantity) /\ p.quantity.n >= 1
    /\ NonNegative(p.unit_weight)

\* whatever the rate text, the duty of the example shipment (CIF value 1150,
\* 10 units of 100 kg) at the rate parse_duty_rate returns is >= 0
ParsedRateDutyNonNegative ==
    (pc = "parsed" /\ rate_out.type # "raised") =>
        NonNegative(calculate_duty_amount(rate_out.type, rate_out.value, Int2Num(1150),
                                          PyInt(10), Int2Num(100)))

\* C25: for non-negative cost, freight and insurance, a quantity of at least
\* one and a non-negative unit weight, whatever the rate text of the record,
\* calculate_duty returns duty_amount >= 0 and
\* total_landed_cost >= cif_value >= 0.
C25_AmountsNonNegative ==
    /\ ParsedRateDutyNonNegative
    /\ (pc = "calculated" /\ ValidShipment(product)) =>
        /\ calc.raised = Absent
        /\ NonNegative(calc.duty_amount)
        /\ NonNegative(calc.cif_value)
        /\ IsNum(calc.total_landed_cost)
        /\ Geq(calc.total_landed_cost, calc.cif_value)

\* a valid shipment whose code is found, with a duty above zero
C25_Witness ==
    /\ pc = "calculated"
    /\ ValidShipment(product)
    /\ Found
    /\ calc.raised = Absent
    /\ IsNum(calc.duty_amount) /\ calc.duty_amount.n > 0

(***************************************************************************)
(* C26.                                                                    *)
(***************************************************************************)
\* the number of events e in a log
Count(log, e) == Cardinality({j \in 1..Len(log) : log[j] = e})

\* the call on range i has returned
CallDone(i) == dl.results[i] # "pending"

\* the target file of range i was there, with more than 1000 bytes, when the
\* call on it began
WasPresent(i) == dl.before[i].exists /\ dl.before[i].size > 1000

\* at most max_retries requests
FewRequests(i) == Count(dl.log[i], "get") <= dl.max_retries

\* the attempt whose response passes the checks is the last one, and the call
\* returns the path at it
PassReturns(i) ==
    \A j \in 1..Len(dl.log[i]) :
        dl.log[i][j] = "pass" =>
            /\ dl.results[i] = "path"
            /\ \A later \in (j + 1)..Len(dl.log[i]) : dl.log[i][later] = "write"

\* a wait comes right before every request but the first, and nowhere else
WaitsBetween(i) ==
    /\ \A j \in 1..Len(dl.log[i]) :
           dl.log[i][j] = "get" => (j = 1 \/ dl.log[i][j - 1] = "wait")
    /\ \A j \in 1..Len(dl.log[i]) :
           dl.log[i][j] = "wait" => (j > 1 /\ j < Len(dl.log[i]) /\ dl.log[i][j + 1] = "get")

\* the file is written by an attempt whose response passed, and changes in no
\* other way
WrittenOnPass(i) ==
    /\ \A j \in 1..Len(dl.log[i]) :
           dl.log[i][j] = "write" => (j > 1 /\ dl.log[i][j - 1] = "pass")
    /\ dl.files[i] # dl.before[i] => Count(dl.log[i], "write") = 1

PathObtained == \E i \in 1..Len(dl.files) : dl.results[i] = "path"

\* the call on a file already there makes no request, leaves the file as it
\* was and returns the path
SkipsPresent(i) ==
    WasPresent(i) =>
        dl.log[i] = <<>> /\ dl.files[i] = dl.before[i] /\ dl.results[i] = "path"

\* tables are made or replaced only when a path was obtained
TablesNeedPath == (dl.connected \/ dl.tables # {}) => PathObtained

====
